---- MODULE Spec2Model ----
(***************************************************************************)
(* Logical-plan optimizer of polars' lazy engine                           *)
(* (src/polars/src/lazy/logical_plan/optimizer.rs): ProjectionPushDown and *)
(* PredicatePushDown.                                                      *)
(*                                                                         *)
(* Each pass is a recursive function push_down(plan, accumulator).  The    *)
(* recursion is modelled as a machine with an explicit call stack: `todo`  *)
(* holds the pending push_down calls and the builder calls that rebuild a  *)
(* node once its input has been rewritten, `done` holds the rewritten      *)
(* subtrees.  One action is one visit of push_down to one node, or one     *)
(* builder call on the way back.                                           *)
(*                                                                         *)
(* The input plan is assembled first by the builder operations (project,   *)
(* filter, sort, join) on top of a scan, as the lazy API does.             *)
(***************************************************************************)
EXTENDS Integers, Sequences, FiniteSets, TLC

VARIABLES
    pass,     \* which optimizer runs: "projection" or "predicate"
    pc,       \* "plan" (input being assembled), "run", "done", "executed"
    lp,       \* the input logical plan
    todo,     \* call stack: push_down calls and builder calls still to make
    done,     \* stack of rewritten subtrees (last pushed first)
    exec      \* the tables the plans were run on and the rows each plan gave

vars == <<pass, pc, lp, todo, done, exec>>

(***************************************************************************)
(* Bounds of the model.                                                    *)
(***************************************************************************)
\* number of operator nodes stacked on the scan of an input plan
MaxDepth == 3
\* number of rows of a leaf table when the plans are executed
MaxRows == 1

\* values a table cell can hold
Values == {0, 1}

(***************************************************************************)
(* Column names.  A name is a base string followed by a number of          *)
(* "_right" suffixes, so that ends_with("_right"), split_at and            *)
(* format!("{}_right", ..) are computed and not assumed.                   *)
(***************************************************************************)
Name(b, s) == [base |-> b, sfx |-> s]
N(b) == Name(b, 0)

ends_with_right(n) == n.sfx > 0
\* root_column_name.split_at(len - "_right".len()).0
strip_right(n) == [n EXCEPT !.sfx = @ - 1]
\* format!("{}_right", name)
add_right(n) == [n EXCEPT !.sfx = @ + 1]

Range(s) == {s[i] : i \in 1..Len(s)}
IsUnique(s) == \A i, j \in 1..Len(s) : s[i] = s[j] => i = j

(***************************************************************************)
(* Expressions.                                                            *)
(***************************************************************************)
Column(n) == [e |-> "Column", name |-> n]
Alias(x, n) == [e |-> "Alias", expr |-> x, name |-> n]
Literal(v) == [e |-> "Literal", value |-> v]
BinaryExpr(l, o, r) == [e |-> "BinaryExpr", left |-> l, op |-> o, right |-> r]

Err == [error |-> "NotFound"]

\* utils::expr_to_root_column: the single base column an expression reads
RECURSIVE expr_to_root_column(_)
expr_to_root_column(x) ==
    CASE x.e = "Column" -> x.name
      [] x.e = "Alias" -> expr_to_root_column(x.expr)
      [] x.e = "Literal" -> Err
      [] x.e = "BinaryExpr" ->
            LET l == expr_to_root_column(x.left)
                r == expr_to_root_column(x.right)
            IN  IF l = Err THEN r
                ELSE IF r = Err \/ r = l THEN l
                ELSE Err

\* utils::rename_expr_root_name: a copy of the expression reading new_name
RECURSIVE rename_expr_root_name(_, _)
rename_expr_root_name(x, new_name) ==
    CASE x.e = "Column" -> Column(new_name)
      [] x.e = "Alias" -> Alias(rename_expr_root_name(x.expr, new_name), x.name)
      [] x.e = "Literal" -> x
      [] x.e = "BinaryExpr" ->
            BinaryExpr(rename_expr_root_name(x.left, new_name), x.op,
                       rename_expr_root_name(x.right, new_name))

\* Expr::to_field(schema): the name of the field the expression produces on
\* the schema, Err when a column it reads is not in the schema.  An alias
\* renames the output; a binary expression is named after its left operand.
RECURSIVE to_field(_, _)
to_field(x, schema) ==
    CASE x.e = "Column" -> IF x.name \in Range(schema) THEN x.name ELSE Err
      [] x.e = "Alias" -> IF to_field(x.expr, schema) = Err THEN Err ELSE x.name
      [] x.e = "Literal" -> N("lit")
      [] x.e = "BinaryExpr" ->
            IF to_field(x.left, schema) = Err \/ to_field(x.right, schema) = Err
            THEN Err
            ELSE to_field(x.left, schema)

\* check if a selection/projection can be done on the downwards schema
check_down_node(expr, down_schema) == to_field(expr, down_schema) # Err

(***************************************************************************)
(* Logical plans and the builder that assembles them.                      *)
(***************************************************************************)
DataFrameScan(df, schema) == [node |-> "DataFrameScan", df |-> df, schema |-> schema]
CsvScan(path, schema) ==
    [node |-> "CsvScan", path |-> path, schema |-> schema,
     has_header |-> TRUE, delimiter |-> ","]

\* LogicalPlanBuilder::project / filter / sort / join
project(input, exprs) == [node |-> "Projection", expr |-> exprs, input |-> input]
filter(input, predicate) == [node |-> "Selection", predicate |-> predicate, input |-> input]
sort(input, column, reverse) ==
    [node |-> "Sort", input |-> input, column |-> column, reverse |-> reverse]
join(left, right, how, left_on, right_on) ==
    [node |-> "Join", input_left |-> left, input_right |-> right,
     left_on |-> left_on, right_on |-> right_on, how |-> how]

IsScan(p) == p.node \in {"DataFrameScan", "CsvScan"}

\* schema of a join: the left fields, then the right fields, a right field
\* whose name is already a left field getting the "_right" suffix
JoinSchema(sl, sr) ==
    sl \o [i \in 1..Len(sr) |-> IF sr[i] \in Range(sl) THEN add_right(sr[i]) ELSE sr[i]]

\* LogicalPlan::schema(): a function of the subtree
RECURSIVE Schema(_)
Schema(p) ==
    CASE IsScan(p) -> p.schema
      [] p.node = "Projection" ->
            LET s == Schema(p.input)
            IN  [i \in 1..Len(p.expr) |-> to_field(p.expr[i], s)]
      [] p.node = "Selection" -> Schema(p.input)
      [] p.node = "Sort" -> Schema(p.input)
      [] p.node = "Join" -> JoinSchema(Schema(p.input_left), Schema(p.input_right))

\* number of operator nodes on the longest path to a scan
RECURSIVE Depth(_)
Depth(p) ==
    CASE IsScan(p) -> 0
      [] p.node = "Join" ->
            LET l == Depth(p.input_left)
                r == Depth(p.input_right)
            IN  1 + (IF l > r THEN l ELSE r)
      [] OTHER -> 1 + Depth(p.input)

(***************************************************************************)
(* Call-stack frames.                                                      *)
(***************************************************************************)
Call(plan, acc) == [op |-> "push_down", lp |-> plan, acc |-> acc]
ProjectFrame(exprs) == [op |-> "project", expr |-> exprs]
FilterFrame(predicate) == [op |-> "filter", predicate |-> predicate]
SortFrame(column, reverse) == [op |-> "sort", column |-> column, reverse |-> reverse]
JoinFrame(how, left_on, right_on) ==
    [op |-> "join", how |-> how, left_on |-> left_on, right_on |-> right_on]

Top == todo[1]
Visiting(p, kind) ==
    /\ pc = "run"
    /\ pass = p
    /\ todo # <<>>
    /\ Top.op = "push_down"
    /\ Top.lp.node = kind

(***************************************************************************)
(* ProjectionPushDown                                                      *)
(***************************************************************************)
\* faulty variant: the scan is wrapped in a projection even when none was asked
Proj_finish_at_leaf_always(plan, acc_projections) == project(plan, acc_projections)

\* ProjectionPushDown::finish_at_leaf
Proj_finish_at_leaf(plan, acc_projections) ==
    IF Len(acc_projections) = 0
    THEN plan
    ELSE project(plan, acc_projections)

Partition(s, Test(_)) ==
    [down |-> SelectSeq(s, Test), local |-> SelectSeq(s, LAMBDA x : ~Test(x))]

\* faulty variant: the field-count shortcut is missing
split_acc_projections_always(acc_projections, down_schema) ==
    Partition(acc_projections, LAMBDA x : check_down_node(x, down_schema))

\* ProjectionPushDown::split_acc_projections
split_acc_projections(acc_projections, down_schema) ==
    IF Len(down_schema) = Len(acc_projections)
    THEN [down |-> <<>>, local |-> acc_projections]
    ELSE Partition(acc_projections, LAMBDA x : check_down_node(x, down_schema))

\* ProjectionPushDown::finish_node: the builder calls that follow the rebuild
Proj_finish_node(local_projections) ==
    IF Len(local_projections) > 0
    THEN <<ProjectFrame(local_projections)>>
    ELSE <<>>

\* ProjectionPushDown::join_push_down
join_push_down(schema_left, schema_right, proj, pushdown_left, pushdown_right) ==
    LET l == check_down_node(proj, schema_left)
        r == check_down_node(proj, schema_right)
    IN  [left |-> IF l THEN Append(pushdown_left, proj) ELSE pushdown_left,
         right |-> IF r THEN Append(pushdown_right, proj) ELSE pushdown_right,
         pushed_at_least_one |-> l \/ r]

\* faulty variant: the join columns are not pushed
join_columns_unpushed(left_on, right_on) ==
    [left |-> <<>>, right |-> <<>>, local |-> <<>>]

\* We need the join columns so we push the projection downwards
join_columns(left_on, right_on) ==
    [left |-> <<Column(left_on)>>, right |-> <<Column(right_on)>>, local |-> <<>>]

\* faulty variant: the column is pushed right without its alias
suffix_projection_unaliased(root_column_name) == Column(strip_right(root_column_name))

\* project downwards and immediately alias to prevent wrong projections
suffix_projection(root_column_name) ==
    LET downwards_name == strip_right(root_column_name)
    IN  Alias(Column(downwards_name), add_right(downwards_name))

\* one iteration of `for mut proj in acc_projections` at a Join
join_step(st, proj0, schema_left, schema_right) ==
    LET is_alias == proj0.e = "Alias"
        proj == IF is_alias THEN Column(expr_to_root_column(proj0.expr)) ELSE proj0
        local1 == IF is_alias THEN Append(st.local, Alias(proj, proj0.name)) ELSE st.local
        add_local == ~is_alias
        jp == join_push_down(schema_left, schema_right, proj, st.left, st.right)
        root_column_name == expr_to_root_column(proj)
    IN  IF ~jp.pushed_at_least_one
        THEN IF ends_with_right(root_column_name)
             THEN [left |-> jp.left,
                   right |-> Append(jp.right, suffix_projection(root_column_name)),
                   local |-> Append(local1, proj)]
             ELSE [left |-> jp.left, right |-> jp.right, local |-> local1]
        ELSE IF add_local
             THEN [left |-> jp.left, right |-> jp.right, local |-> Append(local1, proj)]
             ELSE [left |-> jp.left, right |-> jp.right, local |-> local1]

RECURSIVE join_loop(_, _, _, _, _)
join_loop(st, acc, i, schema_left, schema_right) ==
    IF i > Len(acc)
    THEN st
    ELSE join_loop(join_step(st, acc[i], schema_left, schema_right),
                   acc, i + 1, schema_left, schema_right)

\* the three vectors a Join builds from the accumulated projections
join_split(acc_projections, schema_left, schema_right, left_on, right_on) ==
    IF Len(acc_projections) > 0
    THEN join_loop(join_columns(left_on, right_on), acc_projections, 1,
                   schema_left, schema_right)
    ELSE [left |-> <<>>, right |-> <<>>, local |-> <<>>]

\* push_down, Projection arm
ProjVisitProjection ==
    /\ Visiting("projection", "Projection")
    /\ LET acc == Top.acc \o Top.lp.expr
           sp == split_acc_projections(acc, Schema(Top.lp.input))
       IN  todo' = <<Call(Top.lp.input, sp.down)>> \o Proj_finish_node(sp.local)
                     \o Tail(todo)
    /\ UNCHANGED <<pass, pc, lp, done, exec>>

\* push_down, DataFrameScan arm
ProjVisitDataFrameScan ==
    /\ Visiting("projection", "DataFrameScan")
    /\ done' = <<Proj_finish_at_leaf(Top.lp, Top.acc)>> \o done
    /\ todo' = Tail(todo)
    /\ UNCHANGED <<pass, pc, lp, exec>>

\* push_down, CsvScan arm
ProjVisitCsvScan ==
    /\ Visiting("projection", "CsvScan")
    /\ done' = <<Proj_finish_at_leaf(Top.lp, Top.acc)>> \o done
    /\ todo' = Tail(todo)
    /\ UNCHANGED <<pass, pc, lp, exec>>

\* push_down, Sort arm
ProjVisitSort ==
    /\ Visiting("projection", "Sort")
    /\ todo' = <<Call(Top.lp.input, Top.acc), SortFrame(Top.lp.column, Top.lp.reverse)>>
                 \o Tail(todo)
    /\ UNCHANGED <<pass, pc, lp, done, exec>>

\* push_down, Selection arm
ProjVisitSelection ==
    /\ Visiting("projection", "Selection")
    /\ todo' = <<Call(Top.lp.input, Top.acc), FilterFrame(Top.lp.predicate)>>
                 \o Tail(todo)
    /\ UNCHANGED <<pass, pc, lp, done, exec>>

\* push_down, Join arm
ProjVisitJoin ==
    /\ Visiting("projection", "Join")
    /\ LET j == Top.lp
           sp == join_split(Top.acc, Schema(j.input_left), Schema(j.input_right),
                            j.left_on, j.right_on)
       IN  todo' = <<Call(j.input_left, sp.left), Call(j.input_right, sp.right),
                     JoinFrame(j.how, j.left_on, j.right_on)>>
                     \o Proj_finish_node(sp.local) \o Tail(todo)
    /\ UNCHANGED <<pass, pc, lp, done, exec>>

(***************************************************************************)
(* Builder calls made on the way back up (both passes).                    *)
(***************************************************************************)
Returning(kind) ==
    /\ pc = "run"
    /\ todo # <<>>
    /\ Top.op = kind

BuildProject ==
    /\ Returning("project")
    /\ done' = <<project(done[1], Top.expr)>> \o Tail(done)
    /\ todo' = Tail(todo)
    /\ UNCHANGED <<pass, pc, lp, exec>>

BuildFilter ==
    /\ Returning("filter")
    /\ done' = <<filter(done[1], Top.predicate)>> \o Tail(done)
    /\ todo' = Tail(todo)
    /\ UNCHANGED <<pass, pc, lp, exec>>

BuildSort ==
    /\ Returning("sort")
    /\ done' = <<sort(done[1], Top.column, Top.reverse)>> \o Tail(done)
    /\ todo' = Tail(todo)
    /\ UNCHANGED <<pass, pc, lp, exec>>

\* lp_left was pushed first, lp_right after it
BuildJoin ==
    /\ Returning("join")
    /\ done' = <<join(done[2], done[1], Top.how, Top.left_on, Top.right_on)>>
                 \o Tail(Tail(done))
    /\ todo' = Tail(todo)
    /\ UNCHANGED <<pass, pc, lp, exec>>

\* Optimize::optimize returns the rewritten plan
Return ==
    /\ pc = "run"
    /\ todo = <<>>
    /\ pc' = "done"
    /\ UNCHANGED <<pass, lp, todo, done, exec>>

(***************************************************************************)
(* PredicatePushDown                                                       *)
(* The accumulator is a hash map from column name to predicate, modelled   *)
(* as a function on a finite set of names.  values() iterates in the       *)
(* order of the hasher, which the program does not fix: every order is a   *)
(* possible one.                                                           *)
(***************************************************************************)
EmptyMap == << >>
\* FnvHashMap::insert: a second insert under the same key replaces the first
Insert(m, k, v) == [x \in (DOMAIN m) \cup {k} |-> IF x = k THEN v ELSE m[x]]
\* FnvHashMap::remove
Remove(m, k) == [x \in (DOMAIN m) \ {k} |-> m[x]]

\* the orders in which values() can yield the entries of a map
Orders(m) ==
    LET n == Cardinality(DOMAIN m)
    IN  {s \in [1..n -> DOMAIN m] : \A i, j \in 1..n : s[i] = s[j] => i = j}
ValuesIn(m, order) == [i \in 1..Len(order) |-> m[order[i]]]

RECURSIVE FilterAll(_, _, _)
FilterAll(plan, predicates, i) ==
    IF i > Len(predicates)
    THEN plan
    ELSE FilterAll(filter(plan, predicates[i]), predicates, i + 1)

\* PredicatePushDown::finish_at_leaf, on the values in iteration order
Pred_finish_at_leaf(plan, acc_values) ==
    IF Len(acc_values) = 0
    THEN plan
    ELSE FilterAll(plan, acc_values, 1)

\* PredicatePushDown::finish_node: the builder calls that follow the rebuild
Pred_finish_node(local_predicates) ==
    IF Len(local_predicates) > 0
    THEN [i \in 1..Len(local_predicates) |-> FilterFrame(local_predicates[i])]
    ELSE <<>>

\* faulty variant: a pending predicate on the column is kept, the new one lost
selection_insert_keep(acc_predicates, predicate) ==
    IF expr_to_root_column(predicate) \in DOMAIN acc_predicates
    THEN acc_predicates
    ELSE Insert(acc_predicates, expr_to_root_column(predicate), predicate)

\* push_down, Selection arm: acc_predicates.insert(name, predicate)
selection_insert(acc_predicates, predicate) ==
    Insert(acc_predicates, expr_to_root_column(predicate), predicate)

\* one iteration of `for e in &expr` at a Projection
rename_step(acc_predicates, e) ==
    IF e.e = "Alias" /\ e.name \in DOMAIN acc_predicates
    THEN LET predicate == acc_predicates[e.name]
             new_name == expr_to_root_column(e.expr)
             new_predicate == rename_expr_root_name(predicate, new_name)
         IN  Insert(Remove(acc_predicates, e.name), new_name, new_predicate)
    ELSE acc_predicates

RECURSIVE rename_loop(_, _, _)
rename_loop(acc_predicates, expr, i) ==
    IF i > Len(expr)
    THEN acc_predicates
    ELSE rename_loop(rename_step(acc_predicates, expr[i]), expr, i + 1)

\* one iteration of `for predicate in acc_predicates.values()` at a Join
route_step(st, predicate, schema_left, schema_right) ==
    IF check_down_node(predicate, schema_left)
    THEN [st EXCEPT !.left = Insert(@, to_field(predicate, schema_left), predicate)]
    ELSE IF check_down_node(predicate, schema_right)
    THEN [st EXCEPT !.right = Insert(@, to_field(predicate, schema_right), predicate)]
    ELSE [st EXCEPT !.local = Append(@, predicate)]

RECURSIVE route_loop(_, _, _, _, _)
route_loop(st, predicates, i, schema_left, schema_right) ==
    IF i > Len(predicates)
    THEN st
    ELSE route_loop(route_step(st, predicates[i], schema_left, schema_right),
                    predicates, i + 1, schema_left, schema_right)

\* the two maps and the vector a Join builds from the pending predicates
route(acc_values, schema_left, schema_right) ==
    route_loop([left |-> EmptyMap, right |-> EmptyMap, local |-> <<>>],
               acc_values, 1, schema_left, schema_right)

\* push_down, Selection arm (a predicate with one root column)
PredVisitSelection ==
    /\ Visiting("predicate", "Selection")
    /\ expr_to_root_column(Top.lp.predicate) # Err
    /\ todo' = <<Call(Top.lp.input, selection_insert(Top.acc, Top.lp.predicate))>>
                 \o Tail(todo)
    /\ UNCHANGED <<pass, pc, lp, done, exec>>

\* push_down, Projection arm
PredVisitProjection ==
    /\ Visiting("predicate", "Projection")
    /\ todo' = <<Call(Top.lp.input, rename_loop(Top.acc, Top.lp.expr, 1)),
                 ProjectFrame(Top.lp.expr)>> \o Tail(todo)
    /\ UNCHANGED <<pass, pc, lp, done, exec>>

\* push_down, DataFrameScan arm
PredVisitDataFrameScan ==
    /\ Visiting("predicate", "DataFrameScan")
    /\ \E order \in Orders(Top.acc) :
          done' = <<Pred_finish_at_leaf(Top.lp, ValuesIn(Top.acc, order))>> \o done
    /\ todo' = Tail(todo)
    /\ UNCHANGED <<pass, pc, lp, exec>>

\* push_down, CsvScan arm
PredVisitCsvScan ==
    /\ Visiting("predicate", "CsvScan")
    /\ \E order \in Orders(Top.acc) :
          done' = <<Pred_finish_at_leaf(Top.lp, ValuesIn(Top.acc, order))>> \o done
    /\ todo' = Tail(todo)
    /\ UNCHANGED <<pass, pc, lp, exec>>

\* push_down, Sort arm
PredVisitSort ==
    /\ Visiting("predicate", "Sort")
    /\ todo' = <<Call(Top.lp.input, Top.acc), SortFrame(Top.lp.column, Top.lp.reverse)>>
                 \o Tail(todo)
    /\ UNCHANGED <<pass, pc, lp, done, exec>>

\* push_down, Join arm
PredVisitJoin ==
    /\ Visiting("predicate", "Join")
    /\ \E order \in Orders(Top.acc) :
          LET j == Top.lp
              st == route(ValuesIn(Top.acc, order),
                          Schema(j.input_left), Schema(j.input_right))
          IN  todo' = <<Call(j.input_left, st.left), Call(j.input_right, st.right),
                        JoinFrame(j.how, j.left_on, j.right_on)>>
                        \o Pred_finish_node(st.local) \o Tail(todo)
    /\ UNCHANGED <<pass, pc, lp, done, exec>>

(***************************************************************************)
(* Input plans.  A plan is assembled by builder calls on top of a scan;    *)
(* a call is made only when the plan it yields is well formed: every       *)
(* expression resolves on the schema of its input and no node has two       *)
(* fields of one name.                                                     *)
(***************************************************************************)
DfLeaf == DataFrameScan("df", <<N("a"), N("foo")>>)
CsvLeaf == CsvScan("csv", <<N("c"), N("foo"), N("d")>>)
Leaves == {DfLeaf, CsvLeaf}
JoinTypes == {"Inner"}

RECURSIVE WellFormed(_)
WellFormed(p) ==
    CASE IsScan(p) -> IsUnique(p.schema)
      [] p.node = "Projection" ->
            /\ WellFormed(p.input)
            /\ \A i \in 1..Len(p.expr) : check_down_node(p.expr[i], Schema(p.input))
            /\ IsUnique(Schema(p))
      [] p.node = "Selection" ->
            /\ WellFormed(p.input)
            /\ check_down_node(p.predicate, Schema(p.input))
      [] p.node = "Sort" ->
            /\ WellFormed(p.input)
            /\ p.column \in Range(Schema(p.input))
      [] p.node = "Join" ->
            /\ WellFormed(p.input_left)
            /\ WellFormed(p.input_right)
            /\ p.left_on \in Range(Schema(p.input_left))
            /\ p.right_on \in Range(Schema(p.input_right))
            /\ IsUnique(Schema(p))

Eq(c, v) == BinaryExpr(Column(c), "Eq", Literal(v))

Adjacent(n) == {ij \in (1..n) \X (1..n) : ij[1] - ij[2] \in {-1, 1}}

\* the expression lists select() is called with
ProjectionChoices(s) ==
    IF pass = "projection"
    THEN {<<Column(s[i])>> : i \in 1..Len(s)}
         \cup {<<Column(s[ij[1]]), Column(s[ij[2]])>> : ij \in Adjacent(Len(s))}
         \cup {<<Alias(Column(s[i]), N("x"))>> : i \in 1..Len(s)}
    ELSE {[i \in 1..Len(s) |-> Column(s[i])]}
         \cup {<<Alias(Column(s[ij[1]]), s[ij[2]])>> : ij \in Adjacent(Len(s))}
         \cup {<<Alias(Column(s[i + 1]), s[i]), Alias(Column(s[i]), s[i + 1])>> :
                 i \in 1..(Len(s) - 1)}

\* the predicates filter() is called with
PredicateChoices(s) ==
    IF pass = "projection"
    THEN {Eq(s[Len(s)], 0)}
    ELSE {Eq(s[i], 0) : i \in 1..Len(s)}
         \cup {Alias(Eq(s[i], 1), N("z")) : i \in 1..Len(s)}

\* the columns sort() is called with
SortChoices(s) == IF pass = "projection" THEN Range(s) ELSE {Head(s)}

PlanProject ==
    /\ pc = "plan"
    /\ Depth(lp) < MaxDepth
    /\ \E exprs \in ProjectionChoices(Schema(lp)) :
          /\ WellFormed(project(lp, exprs))
          /\ lp' = project(lp, exprs)
    /\ UNCHANGED <<pass, pc, todo, done, exec>>

PlanFilter ==
    /\ pc = "plan"
    /\ Depth(lp) < MaxDepth
    /\ \E predicate \in PredicateChoices(Schema(lp)) :
          /\ WellFormed(filter(lp, predicate))
          /\ lp' = filter(lp, predicate)
    /\ UNCHANGED <<pass, pc, todo, done, exec>>

PlanSort ==
    /\ pc = "plan"
    /\ Depth(lp) < MaxDepth
    /\ \E column \in SortChoices(Schema(lp)) :
          /\ WellFormed(sort(lp, column, FALSE))
          /\ lp' = sort(lp, column, FALSE)
    /\ UNCHANGED <<pass, pc, todo, done, exec>>

\* the columns join() is called with: the first of each side, or the last
JoinChoices(sl, sr) ==
    IF pass = "projection"
    THEN {<<Head(sl), Head(sr)>>, <<sl[Len(sl)], sr[Len(sr)]>>}
    ELSE {<<Head(sl), Head(sr)>>}

\* the plan is joined with a scan, as left or as right input
PlanJoin ==
    /\ pc = "plan"
    /\ Depth(lp) < MaxDepth
    /\ \E other \in Leaves, how \in JoinTypes, lp_is_left \in BOOLEAN :
          LET l == IF lp_is_left THEN lp ELSE other
              r == IF lp_is_left THEN other ELSE lp
          IN  \E on \in JoinChoices(Schema(l), Schema(r)) :
                 /\ WellFormed(join(l, r, how, on[1], on[2]))
                 /\ lp' = join(l, r, how, on[1], on[2])
    /\ UNCHANGED <<pass, pc, todo, done, exec>>

\* Optimize::optimize: push_down(logical_plan, empty accumulator)
Optimize ==
    /\ pc = "plan"
    /\ pc' = "run"
    /\ todo' = <<Call(lp, IF pass = "projection" THEN <<>> ELSE EmptyMap)>>
    /\ UNCHANGED <<pass, lp, done, exec>>

(***************************************************************************)
(* Execution of a plan on table contents: scan, then the operators from    *)
(* the leaves up.  Only the rows a plan yields are modelled.               *)
(***************************************************************************)
RECURSIVE EvalExpr(_, _)
EvalExpr(x, row) ==
    CASE x.e = "Column" -> row[x.name]
      [] x.e = "Alias" -> EvalExpr(x.expr, row)
      [] x.e = "Literal" -> x.value
      [] x.e = "BinaryExpr" -> EvalExpr(x.left, row) = EvalExpr(x.right, row)

RECURSIVE Flatten(_)
Flatten(ss) == IF ss = <<>> THEN <<>> ELSE Head(ss) \o Flatten(Tail(ss))

\* inner join: one output row per pair of rows equal on the keys
JoinRows(ls, rs, sl, sr, left_on, right_on) ==
    LET out == JoinSchema(sl, sr)
        pair(l, r) ==
            [n \in Range(out) |->
                IF n \in Range(sl) THEN l[n]
                ELSE IF n \in Range(sr) /\ n \notin Range(sl) THEN r[n]
                ELSE r[strip_right(n)]]
        matches(l) ==
            LET hit == SelectSeq(rs, LAMBDA r : r[right_on] = l[left_on])
            IN  [i \in 1..Len(hit) |-> pair(l, hit[i])]
    IN  Flatten([i \in 1..Len(ls) |-> matches(ls[i])])

RECURSIVE Eval(_, _)
Eval(p, tables) ==
    CASE p.node = "DataFrameScan" -> tables[p.df]
      [] p.node = "CsvScan" -> tables[p.path]
      [] p.node = "Projection" ->
            LET rows == Eval(p.input, tables)
                s == Schema(p.input)
            IN  [i \in 1..Len(rows) |->
                    [n \in Range(Schema(p)) |->
                        LET k == CHOOSE k \in 1..Len(p.expr) : to_field(p.expr[k], s) = n
                        IN  EvalExpr(p.expr[k], rows[i])]]
      [] p.node = "Selection" ->
            SelectSeq(Eval(p.input, tables), LAMBDA row : EvalExpr(p.predicate, row))
      [] p.node = "Sort" -> Eval(p.input, tables)
      [] p.node = "Join" ->
            JoinRows(Eval(p.input_left, tables), Eval(p.input_right, tables),
                     Schema(p.input_left), Schema(p.input_right), p.left_on, p.right_on)

\* number of rows a well-formed plan yields (-1: the plan cannot be executed)
RowCount(p, tables) == IF WellFormed(p) THEN Len(Eval(p, tables)) ELSE -1

Rows(schema) == [Range(schema) -> Values]
Contents(schema) == UNION {[1..n -> Rows(schema)] : n \in 0..MaxRows}

\* the input plan and the optimized plan are run on the same tables
Execute ==
    /\ pc = "done"
    /\ pass = "predicate"
    /\ \E d \in Contents(DfLeaf.schema), c \in Contents(CsvLeaf.schema) :
          LET tables == [df |-> d, csv |-> c]
          IN  exec' = [tables |-> tables,
                       rows_in |-> RowCount(lp, tables),
                       rows_out |-> RowCount(done[1], tables)]
    /\ pc' = "executed"
    /\ UNCHANGED <<pass, lp, todo, done>>

(***************************************************************************)
(* Specifications.                                                         *)
(***************************************************************************)
InitPass(p) ==
    /\ pass = p
    /\ pc = "plan"
    /\ lp \in Leaves
    /\ todo = <<>>
    /\ done = <<>>
    /\ exec = <<>>

Plan == PlanProject \/ PlanFilter \/ PlanSort \/ PlanJoin \/ Optimize
Build == BuildProject \/ BuildFilter \/ BuildSort \/ BuildJoin \/ Return

NextProjection ==
    \/ Plan
    \/ ProjVisitProjection
    \/ ProjVisitDataFrameScan
    \/ ProjVisitCsvScan
    \/ ProjVisitSort
    \/ ProjVisitSelection
    \/ ProjVisitJoin
    \/ Build

NextPredicate ==
    \/ Plan
    \/ PredVisitSelection
    \/ PredVisitProjection
    \/ PredVisitDataFrameScan
    \/ PredVisitCsvScan
    \/ PredVisitSort
    \/ PredVisitJoin
    \/ Build

\* ProjectionPushDown {}.optimize(plan) on every input plan
SpecProjection == InitPass("projection") /\ [][NextProjection]_vars
\* PredicatePushDown {}.optimize(plan) on every input plan
SpecPredicate == InitPass("predicate") /\ [][NextPredicate]_vars
\* PredicatePushDown, then both plans executed
SpecExecute == InitPass("predicate") /\ [][NextPredicate \/ Execute]_vars

(***************************************************************************)
(* Vocabulary of the properties.                                           *)
(***************************************************************************)
Finished(p) == pc = "done" /\ pass = p
\* the plan optimize returned
out == done[1]

RECURSIVE CountNodes(_, _)
CountNodes(p, kind) ==
    (IF p.node = kind THEN 1 ELSE 0)
    + (CASE IsScan(p) -> 0
         [] p.node = "Join" -> CountNodes(p.input_left, kind) + CountNodes(p.input_right, kind)
         [] OTHER -> CountNodes(p.input, kind))

NoJoin(p) == CountNodes(p, "Join") = 0

\* the scan of a plan without joins
RECURSIVE ScanOf(_)
ScanOf(p) == IF IsScan(p) THEN p ELSE ScanOf(p.input)

\* the predicates of the Selection nodes of a plan without joins, top first
RECURSIVE SelectionsOf(_)
SelectionsOf(p) ==
    CASE IsScan(p) -> <<>>
      [] p.node = "Selection" -> <<p.predicate>> \o SelectionsOf(p.input)
      [] OTHER -> SelectionsOf(p.input)

\* a plan without joins with its Selection nodes taken out
RECURSIVE WithoutSelections(_)
WithoutSelections(p) ==
    CASE IsScan(p) -> p
      [] p.node = "Selection" -> WithoutSelections(p.input)
      [] p.node = "Projection" -> project(WithoutSelections(p.input), p.expr)
      [] p.node = "Sort" -> sort(WithoutSelections(p.input), p.column, p.reverse)

\* a plan without joins with its Projection nodes taken out and `exprs`
\* projected directly above the scan
RECURSIVE Relocate(_, _)
Relocate(p, exprs) ==
    CASE IsScan(p) -> project(p, exprs)
      [] p.node = "Projection" -> Relocate(p.input, exprs)
      [] p.node = "Selection" -> filter(Relocate(p.input, exprs), p.predicate)
      [] p.node = "Sort" -> sort(Relocate(p.input, exprs), p.column, p.reverse)

\* the expression list of the topmost Projection of a plan without joins
RECURSIVE ProjectionOf(_)
ProjectionOf(p) == IF p.node = "Projection" THEN p.expr ELSE ProjectionOf(p.input)

\* every Projection of a plan without joins lists columns only
RECURSIVE ColumnsOnly(_)
ColumnsOnly(p) ==
    CASE IsScan(p) -> TRUE
      [] p.node = "Projection" ->
            /\ \A i \in 1..Len(p.expr) : p.expr[i].e = "Column"
            /\ ColumnsOnly(p.input)
      [] OTHER -> ColumnsOnly(p.input)

\* in a plan without joins every Selection sits below every other operator
RECURSIVE FiltersAtScanOnly(_, _)
FiltersAtScanOnly(p, below_filter) ==
    CASE IsScan(p) -> TRUE
      [] p.node = "Selection" -> FiltersAtScanOnly(p.input, TRUE)
      [] OTHER -> ~below_filter /\ FiltersAtScanOnly(p.input, FALSE)

\* every Sort and Selection of a plan reads columns of its input only
RECURSIVE ReadsResolve(_)
ReadsResolve(p) ==
    CASE IsScan(p) -> TRUE
      [] p.node = "Sort" ->
            p.column \in Range(Schema(p.input)) /\ ReadsResolve(p.input)
      [] p.node = "Selection" ->
            check_down_node(p.predicate, Schema(p.input)) /\ ReadsResolve(p.input)
      [] p.node = "Projection" -> ReadsResolve(p.input)
      [] p.node = "Join" -> ReadsResolve(p.input_left) /\ ReadsResolve(p.input_right)

Occurrences(s, x) == Cardinality({i \in 1..Len(s) : s[i] = x})
Held(m, x) == Cardinality({k \in DOMAIN m : m[k] = x})
Roots(s) == {expr_to_root_column(s[i]) : i \in 1..Len(s)}
\* the lowest predicate of s (top first) whose root column is r
Lowest(s, r) ==
    s[CHOOSE i \in 1..Len(s) :
        /\ expr_to_root_column(s[i]) = r
        /\ \A j \in (i + 1)..Len(s) : expr_to_root_column(s[j]) # r]

(***************************************************************************)
(* Properties of PredicatePushDown.                                        *)
(***************************************************************************)
\* the predicates kept local by the Join visited in this step: the filter
\* calls queued right after its join call
LocalPredicates ==
    LET n == Len(todo') - Len(todo) - 2
    IN  [i \in 1..n |-> todo'[3 + i].predicate]

LeafKeepsAll ==
    (Visiting("predicate", "DataFrameScan") \/ Visiting("predicate", "CsvScan")) =>
        /\ ScanOf(done'[1]) = Top.lp
        /\ FiltersAtScanOnly(done'[1], FALSE)
        /\ \A k \in DOMAIN Top.acc :
              Occurrences(SelectionsOf(done'[1]), Top.acc[k]) = Held(Top.acc, Top.acc[k])
        /\ Len(SelectionsOf(done'[1])) = Cardinality(DOMAIN Top.acc)

JoinKeepsAll ==
    Visiting("predicate", "Join") =>
        \A k \in DOMAIN Top.acc :
            Held(todo'[1].acc, Top.acc[k]) + Held(todo'[2].acc, Top.acc[k])
              + Occurrences(LocalPredicates, Top.acc[k])
            = Held(Top.acc, Top.acc[k])

\* C1: no predicate is dropped or duplicated: every predicate pending when
\* push_down reaches a scan becomes exactly one filter above that scan, and
\* every predicate pending when push_down reaches a Join goes to exactly one
\* of the left input, the right input and the filters above the join.
C1_NoPredicateDropped == [][LeafKeepsAll /\ JoinKeepsAll]_vars

\* the columns of the scans of a plan
RECURSIVE LeafColumns(_)
LeafColumns(p) ==
    CASE IsScan(p) -> Range(p.schema)
      [] p.node = "Join" -> LeafColumns(p.input_left) \cup LeafColumns(p.input_right)
      [] OTHER -> LeafColumns(p.input)

\* the predicates of the Selection nodes of a plan
RECURSIVE AllSelections(_)
AllSelections(p) ==
    CASE IsScan(p) -> {}
      [] p.node = "Join" -> AllSelections(p.input_left) \cup AllSelections(p.input_right)
      [] p.node = "Selection" -> {p.predicate} \cup AllSelections(p.input)
      [] OTHER -> AllSelections(p.input)

\* every Selection of the plan filters on a column of a scan
LeafResolvable(p) ==
    \A predicate \in AllSelections(p) : expr_to_root_column(predicate) \in LeafColumns(p)

\* C2: when every Selection filters on a column of a scan, the optimized
\* plan yields as many rows as the input plan, on every contents of the
\* tables.
C2_RowCountPreserved ==
    (pc = "executed" /\ LeafResolvable(lp)) => exec.rows_out = exec.rows_in

\* C5: Selection(p on x) over a Projection containing Alias(Column(y), x)
\* over a scan with column y becomes the Projection over one filter over
\* the scan, the filter being p retargeted to y.
C5_AliasRename ==
    (/\ Finished("predicate")
     /\ lp.node = "Selection"
     /\ lp.input.node = "Projection"
     /\ IsScan(lp.input.input)) =>
        \A i \in 1..Len(lp.input.expr) :
            LET e == lp.input.expr[i]
            IN  (/\ e.e = "Alias"
                 /\ e.expr.e = "Column"
                 /\ e.name = expr_to_root_column(lp.predicate)
                 /\ e.expr.name \in Range(lp.input.input.schema)) =>
                    out = project(filter(lp.input.input,
                                         rename_expr_root_name(lp.predicate, e.expr.name)),
                                  lp.input.expr)

\* C8 as stated: of the Selections of one path that share a root column
\* only one is materialized, so the output of a plan without joins holds at
\* most one filter per root column of its Selections.
C8_OneFilterPerRoot ==
    (Finished("predicate") /\ NoJoin(lp)) =>
        Len(SelectionsOf(out)) <= Cardinality(Roots(SelectionsOf(lp)))

\* every pending predicate is filed under its root column
KeyedByRoot(f) == \A k \in DOMAIN f.acc : expr_to_root_column(f.acc[k]) = k

\* C8 amended: in a plan made of Selection, Sort and column-only Projection
\* nodes over a scan, every accumulator holds its predicates under their
\* root columns, the Selection nodes are gone from their places, and the
\* filters of the output sit directly above the scan, one per root column:
\* the lowest Selection on that column.
C8_LowestSelectionWins ==
    (pass = "predicate" /\ NoJoin(lp) /\ ColumnsOnly(lp)) =>
        /\ pc = "run" =>
              \A i \in 1..Len(todo) : todo[i].op = "push_down" => KeyedByRoot(todo[i])
        /\ pc = "done" =>
              LET sel == SelectionsOf(lp)
                  got == SelectionsOf(out)
              IN  /\ WithoutSelections(out) = WithoutSelections(lp)
                  /\ FiltersAtScanOnly(out, FALSE)
                  /\ Len(got) = Cardinality(Roots(sel))
                  /\ Range(got) = {Lowest(sel, r) : r \in Roots(sel)}

\* two Selections on column a were stacked and the lower one alone is left
C8_Witness ==
    /\ Finished("predicate")
    /\ lp = filter(filter(DfLeaf, Eq(N("a"), 0)), Alias(Eq(N("a"), 1), N("z")))
    /\ out = filter(DfLeaf, Eq(N("a"), 0))

(***************************************************************************)
(* Properties of ProjectionPushDown.                                       *)
(***************************************************************************)
VisitingJoinWith(acc_nonempty) ==
    /\ Visiting("projection", "Join")
    /\ acc_nonempty = (Len(Top.acc) > 0)

\* the local projection queued right after the join call of this step
HasLocalProjection == Len(todo') >= 4 /\ todo'[4].op = "project"

KeysPushed ==
    VisitingJoinWith(TRUE) =>
        /\ todo'[3] = JoinFrame(Top.lp.how, Top.lp.left_on, Top.lp.right_on)
        /\ Column(Top.lp.left_on) \in Range(todo'[1].acc)
        /\ Column(Top.lp.right_on) \in Range(todo'[2].acc)
        /\ \A key \in {Column(Top.lp.left_on), Column(Top.lp.right_on)} :
              key \notin Range(Top.acc) =>
                  /\ HasLocalProjection
                  /\ key \notin Range(todo'[4].expr)

KeysStripped ==
    (/\ Finished("projection")
     /\ lp.node = "Projection"
     /\ lp.input.node = "Join"
     /\ IsScan(lp.input.input_left)
     /\ IsScan(lp.input.input_right)
     /\ Len(lp.expr) # Len(Schema(lp.input))) =>
        /\ out.node = "Projection"
        /\ out.input.node = "Join"
        /\ out.input.input_left.node = "Projection"
        /\ out.input.input_left.input = lp.input.input_left
        /\ Column(lp.input.left_on) \in Range(out.input.input_left.expr)
        /\ out.input.input_right.node = "Projection"
        /\ out.input.input_right.input = lp.input.input_right
        /\ Column(lp.input.right_on) \in Range(out.input.input_right.expr)
        /\ \A key \in {Column(lp.input.left_on), Column(lp.input.right_on)} :
              key \notin Range(lp.expr) => key \notin Range(out.expr)

\* C3: at a Join reached with a non-empty accumulator the left key is among
\* the projections pushed left and the right key among those pushed right,
\* and a key that was not requested is not in the projection rebuilt
\* directly above the join.
C3_JoinKeys == [][KeysPushed]_vars /\ []KeysStripped

\* foo was requested above df JOIN csv ON a = c: both keys are projected at
\* the scans and the projection above the join strips them
C3_Witness ==
    /\ Finished("projection")
    /\ lp = project(join(DfLeaf, CsvLeaf, "Inner", N("a"), N("c")), <<Column(N("foo"))>>)
    /\ out.node = "Projection"
    /\ out.expr = <<Column(N("foo"))>>
    /\ Column(N("a")) \in Range(out.input.input_left.expr)
    /\ Column(N("c")) \in Range(out.input.input_right.expr)

\* the accumulated expressions that ask the left input for column n
AsksLeft(acc, n) ==
    {i \in 1..Len(acc) :
        \/ acc[i] = Column(n)
        \/ acc[i].e = "Alias" /\ expr_to_root_column(acc[i].expr) = n}

SuffixPushed ==
    VisitingJoinWith(TRUE) =>
        \A n \in Range(Schema(Top.lp.input_left)) \cap Range(Schema(Top.lp.input_right)) :
            Column(add_right(n)) \in Range(Top.acc) =>
                /\ Alias(Column(n), add_right(n)) \in Range(todo'[2].acc)
                /\ \A i \in 1..Len(todo'[1].acc) :
                      expr_to_root_column(todo'[1].acc[i]) # add_right(n)
                /\ Occurrences(todo'[1].acc, Column(n))
                     = Cardinality(AsksLeft(Top.acc, n))
                       + (IF Top.lp.left_on = n THEN 1 ELSE 0)
                /\ HasLocalProjection
                /\ Column(add_right(n)) \in Range(todo'[4].expr)

\* C4: when both inputs of a Join have a column foo and foo_right is
\* requested, foo aliased to foo_right is pushed right, nothing is pushed
\* left for it, and foo_right stays in the projection above the join.
C4_SuffixRoundTrip == [][SuffixPushed]_vars

\* foo_right alone was requested above df JOIN csv
C4_Witness ==
    /\ pc = "run"
    /\ pass = "projection"
    /\ lp.node = "Projection"
    /\ lp.expr = <<Column(Name("foo", 1))>>
    /\ Len(todo) = 4
    /\ todo[1] = Call(DfLeaf, <<Column(N("a"))>>)
    /\ todo[2] = Call(CsvLeaf, <<Column(N("c")), Alias(Column(N("foo")), Name("foo", 1))>>)
    /\ todo[4] = ProjectFrame(<<Column(Name("foo", 1))>>)

\* a plan without joins that holds exactly one Projection
OneProjection(p) == NoJoin(p) /\ CountNodes(p, "Projection") = 1

NothingPushed ==
    (/\ Visiting("projection", "Projection")
     /\ Len(Top.acc \o Top.lp.expr) = Len(Schema(Top.lp.input))) =>
        /\ todo'[1] = Call(Top.lp.input, <<>>)
        /\ todo'[2] = ProjectFrame(Top.acc \o Top.lp.expr)

FullProjectionStays ==
    (/\ Finished("projection")
     /\ OneProjection(lp)
     /\ Len(ProjectionOf(lp)) = Len(ScanOf(lp).schema)) =>
        out = lp

\* C6: when the accumulated projections are as many as the fields of the
\* input schema of a Projection, nothing is pushed down and all of them stay
\* at the node; a plan whose one projection selects as many columns as the
\* scan has is returned as it was.
C6_NoOp == [][NothingPushed]_vars /\ []FullProjectionStays

\* both columns of df were selected and the plan came back unchanged
C6_Witness ==
    /\ Finished("projection")
    /\ lp = project(DfLeaf, <<Column(N("a")), Column(N("foo"))>>)
    /\ out = lp

\* C7: a plan of Sort and Selection nodes and one Projection of k columns
\* over a scan of n # k fields comes back with that Projection directly
\* above the scan, the Sort and Selection nodes above it in their order;
\* a plan without Projection comes back as it was.
C7_LeafProjection ==
    Finished("projection") =>
        /\ (/\ OneProjection(lp)
            /\ ColumnsOnly(lp)
            /\ Len(ProjectionOf(lp)) # Len(ScanOf(lp).schema)) =>
               out = Relocate(lp, ProjectionOf(lp))
        /\ CountNodes(lp, "Projection") = 0 => out = lp

\* Sort by foo, then select foo: the projection moved below the sort
C7_Witness ==
    /\ Finished("projection")
    /\ lp = project(sort(DfLeaf, N("foo"), FALSE), <<Column(N("foo"))>>)
    /\ out = sort(project(DfLeaf, <<Column(N("foo"))>>), N("foo"), FALSE)

\* C9: the optimized plan of a plan without joins has the columns of the
\* input plan, in the same order.
C9_OutputSchema ==
    (Finished("projection") /\ NoJoin(lp)) => Schema(out) = Schema(lp)

\* C10: in the optimized plan every Sort and every Selection reads columns
\* that its rewritten input has.
C10_ReadsResolve ==
    Finished("projection") => ReadsResolve(out)

====
